---- MODULE Spec2Model ----
(***************************************************************************)
(* A model of samples/data_processor.py: DataRecord, the four processing   *)
(* steps of DataProcessor, the per-record executor                         *)
(* (_process_single_record) and the batch coordinator (process_batch).     *)
(*                                                                         *)
(* Numbers.  A record's value is a float in the source.  The model keeps   *)
(* it as an integer number of hundredths (Scale = 100 units per 1.0), the  *)
(* resolution round(..., 2) of _normalize_value produces.  quality_score   *)
(* (value * 1.2) is kept in thousandths.                                   *)
(*                                                                         *)
(* Scheduling.  asyncio runs one task slice at a time; a slice runs from   *)
(* one await to the next.  Each slice is one action.  Time is a clock of   *)
(* whole seconds (the unit of config['timeout']); the 0.01 s sleep of a    *)
(* step is shorter than a tick, so any number of slices fit in a tick.     *)
(***************************************************************************)
EXTENDS Integers, Sequences, FiniteSets, TLC

VARIABLES
    config,     \* self.config: timeout, validation_rules, processing_steps
    records,    \* every DataRecord the caller has constructed, by identity
    stats,      \* self._stats: processed, failed, start_time
    tasks,      \* the tasks of the current (or last) process_batch call:
                \* rec (the record), pc, step (index of the step awaited),
                \* and the history fields applied (steps applied so far),
                \* input (the record as submitted), rank (place in the
                \* order of finishing, 0 while unfinished)
    phase,      \* "idle": no call in progress; "running": inside wait_for
    returned,   \* the value the last process_batch call returned
    outcome,    \* how the last call ended: "none", "joined", "timeout"
    stats0,     \* history: stats when the current (or last) call began
    now,        \* the wall clock, in seconds
    deadline,   \* the clock value at which wait_for's timer expires (0 when
                \* no call is in progress)
    probe,      \* the last direct call of a processing step (SpecSteps only)
    ctor        \* the caller's last DataRecord(...) call and how it ended

vars == <<config, records, stats, tasks, phase, returned, outcome, stats0,
          now, deadline, probe, ctor>>

----------------------------------------------------------------------------
(* Bounds of the model. *)

\* The caller constructs at most this many records over the processor's life.
MaxRecords == 2
\* The clock stops ticking here.
MaxClock == 2
\* Directly probed values lie within Window hundredths of a boundary ...
Window == 10
\* ... or are a whole number 0..MaxUnits.
MaxUnits == 1001

(* Program constants. *)

\* round(..., 2): two decimal places.
Scale == 100
\* default validation_rules
DefaultMinValue == 0
DefaultMaxValue == 1000

----------------------------------------------------------------------------
(* Data *)

Status == {"pending", "processing", "completed", "failed"}

\* self.processors: the names that resolve to a function.
processors == {"normalize", "categorize", "validate", "enrich"}

\* A name no processor is registered under.
UnknownStep == "bogus"

StepNames == processors \cup {UnknownStep}

\* The default processing_steps.
DefaultSteps == <<"validate", "normalize", "categorize", "enrich">>

DefaultRules ==
    [min_value |-> DefaultMinValue * Scale,
     max_value |-> DefaultMaxValue * Scale,
     required_tags |-> <<"source", "type">>]

\* A dict with no keys.
EmptyDict == <<>>

\* d[k] = v on a dict.
DictSet(d, k, v) == (k :> v) @@ d

\* The elements of a sequence.
Range(s) == {s[i] : i \in DOMAIN s}

\* Python's round(): n/d rounded to the nearest integer, ties to even (d > 0).
RoundDiv(n, d) ==
    LET q == n \div d
        r == n % d
    IN  IF 2 * r < d THEN q
        ELSE IF 2 * r > d THEN q + 1
        ELSE IF q % 2 = 0 THEN q ELSE q + 1

Min(a, b) == IF a <= b THEN a ELSE b

----------------------------------------------------------------------------
(* DataRecord *)

\* DataRecord(...): a record as the dataclass constructs it (status PENDING,
\* metadata an empty dict unless given).
NewRecord(v, tg) ==
    [value |-> v, metadata |-> EmptyDict, status |-> "pending", tags |-> tg]

\* __post_init__ without the test of the value.
post_init_unchecked(v) == FALSE

\* __post_init__: whether construction raises ValueError.
post_init_raises(v) == v < 0

----------------------------------------------------------------------------
(* The processing steps.  Each takes the record and yields                 *)
(* [raised |-> whether it raised, rec |-> the record afterwards].          *)

Returns(rec) == [raised |-> FALSE, rec |-> rec]
Raises(rec) == [raised |-> TRUE, rec |-> rec]

\* rules['min_value'] <= record.value <= rules['max_value']
InRange(rec, rules) ==
    rules.min_value <= rec.value /\ rec.value <= rules.max_value

\* all(tag in record.tags for tag in rules['required_tags'])
HasRequiredTags(rec, rules) ==
    \A i \in DOMAIN rules.required_tags :
        rules.required_tags[i] \in Range(rec.tags)

\* validate_record with the upper bound exclusive: value < max_value.
validate_record_strict(rec, rules) ==
    IF ~(rules.min_value <= rec.value /\ rec.value < rules.max_value)
    THEN Raises(rec)
    ELSE IF ~HasRequiredTags(rec, rules) THEN Raises(rec)
    ELSE Returns(rec)

validate_record(rec, rules) ==
    IF ~InRange(rec, rules) THEN Raises(rec)
    ELSE IF ~HasRequiredTags(rec, rules) THEN Raises(rec)
    ELSE Returns(rec)

\* Rescale cutting the digits after the second decimal instead of rounding.
Rescale_truncating(v) == (80000 * Scale + 100 * v) \div 900

\* round(100 * (1 + (value - 100) / 900), 2), on hundredths:
\* 100 + (v - 100)/900 * 100 = (80000 + 100 v) / 900, times Scale.
\* The exact quotient is never within 1/18 of a hundredth of a tie, so the
\* float computation rounds as the exact one does.
Rescale(v) == RoundDiv(80000 * Scale + 100 * v, 900)

normalize_value(rec) ==
    LET r1 == IF rec.value > 100 * Scale
              THEN [rec EXCEPT !.value = Rescale(rec.value)]
              ELSE rec
    IN  Returns([r1 EXCEPT !.metadata = DictSet(@, "normalized", TRUE)])

\* Category with the boundaries on the lower side: value <= 30, value <= 70.
Category_inclusive(v) ==
    IF v <= 30 * Scale THEN "low"
    ELSE IF v <= 70 * Scale THEN "medium"
    ELSE "high"

Category(v) ==
    IF v < 30 * Scale THEN "low"
    ELSE IF v < 70 * Scale THEN "medium"
    ELSE "high"

categorize_value(rec) ==
    LET category == Category(rec.value)
    IN  Returns([rec EXCEPT
                   !.metadata = DictSet(@, "category", category),
                   !.tags = Append(@, "category:" \o category)])

\* QualityScore without the cap: value * 1.2.
QualityScore_unclamped(v) == 12 * v

\* min(100, record.value * 1.2), in thousandths.
QualityScore(v) == Min(100 * 10 * Scale, 12 * v)

enrich_metadata(rec, t) ==
    Returns([rec EXCEPT !.metadata =
        DictSet(DictSet(DictSet(@, "processing_time", t),
                        "pipeline_version", "2.1.0"),
                "quality_score", QualityScore(rec.value))])

\* processor(record) for processor = self.processors[name].
CallProcessor(name, rec, cfg, t) ==
    CASE name = "validate" -> validate_record(rec, cfg.validation_rules)
      [] name = "normalize" -> normalize_value(rec)
      [] name = "categorize" -> categorize_value(rec)
      [] name = "enrich" -> enrich_metadata(rec, t)
      [] OTHER -> Raises(rec)    \* self.processors[name]: KeyError

----------------------------------------------------------------------------
(* Configurations and inputs *)

\* The empty list, and every list of one step name.
ShortSteps == {<<>>} \cup {<<n>> : n \in StepNames}

\* Lists with an unknown name between steps, validate after a step that
\* changes the value, and a repeated step.
OtherSteps ==
    {<<"validate", "bogus", "normalize">>,
     <<"normalize", "validate">>,
     <<"bogus", "categorize", "categorize">>,
     <<"enrich", "validate", "bogus">>}

\* The processing_steps a configuration may hold: the default, the lists
\* above, and every short list.
StepLists == {DefaultSteps} \cup OtherSteps \cup ShortSteps

\* The values of config['timeout'], in seconds.
Timeouts == {1}

\* The configurations of the processor: _load_config's defaults, with
\* 'timeout' and 'processing_steps' as a user configuration may set them.
Configs ==
    [timeout : Timeouts,
     validation_rules : {DefaultRules},
     processing_steps : StepLists]

\* The records the caller builds, as (value, tags): 100.04 with the
\* required tags, 1000.01 (out of range) with them, 50.00 without one,
\* and -0.01, which is no value of a record.
RecordInputs ==
    {<<-1, <<"source", "type">> >>,
     <<100 * Scale + 4, <<"source", "type">> >>,
     <<1000 * Scale + 1, <<"type", "source">> >>,
     <<50 * Scale, <<"source">> >>}

\* Every list of elements of S in increasing order: the slices and
\* sub-lists of the caller's list of records.
Sublists(S) ==
    {b \in UNION {[1..k -> S] : k \in 0..Cardinality(S)} :
        \A i, j \in DOMAIN b : i < j => b[i] < b[j]}

\* The caller is not just back from a DataRecord(...) call.
NoCall == [v |-> 0, raised |-> FALSE, n |-> -1]

\* No step has been called directly.
NoProbe ==
    [step |-> "none", before |-> NewRecord(0, <<>>), raised |-> FALSE,
     n |-> 0]

----------------------------------------------------------------------------
(* _process_single_record, one slice per action *)

\* The task's coroutine has returned or raised.
Finished(t) == t.pc \in {"done", "raised"}

\* The place of the next task to finish among the tasks of its batch.
NextRank(tks) == Cardinality({j \in DOMAIN tks : Finished(tks[j])}) + 1

\* NextResolvable without the test `step_name in self.processors`.
NextResolvable_unchecked(steps, from) ==
    IF from <= Len(steps) THEN from ELSE Len(steps) + 1

\* The first index j >= from of a step name that is in self.processors;
\* Len(steps) + 1 when the loop runs out.
NextResolvable(steps, from) ==
    LET c == {j \in from..Len(steps) : steps[j] \in processors}
    IN  IF c = {} THEN Len(steps) + 1
        ELSE CHOOSE j \in c : \A k \in c : j <= k

\* The task, having got past index `from` of the loop: asleep before the
\* next resolvable step, or out of the loop (status COMPLETED, returned).
Advance(i, from, recs, tks) ==
    LET steps == config.processing_steps
        j == NextResolvable(steps, from)
        r == tks[i].rec
    IN  IF j > Len(steps)
        THEN /\ records' = [recs EXCEPT ![r].status = "completed"]
             /\ tasks' = [tks EXCEPT ![i].pc = "done", ![i].step = j,
                                     ![i].rank = NextRank(tks)]
        ELSE /\ records' = recs
             /\ tasks' = [tks EXCEPT ![i].pc = "sleeping", ![i].step = j]

\* No task is in the middle of a slice: the event loop is between callbacks.
BetweenSlices == \A j \in DOMAIN tasks : tasks[j].pc # "running"

\* task_start without the assignment of Status.PROCESSING.
task_start_unmarked(i) ==
    /\ BetweenSlices
    /\ tasks[i].pc = "created"
    /\ \A j \in 1..(i - 1) : tasks[j].pc # "created"
    /\ tasks' = [tasks EXCEPT ![i].pc = "running"]
    /\ UNCHANGED <<config, records, stats, phase, returned, outcome, stats0,
                   now, deadline, probe, ctor>>

\* The first slice of task i begins: record.status = Status.PROCESSING.
\* Tasks first run in the order create_task queued them.
task_start(i) ==
    /\ BetweenSlices
    /\ tasks[i].pc = "created"
    /\ \A j \in 1..(i - 1) : tasks[j].pc # "created"
    /\ records' = [records EXCEPT ![tasks[i].rec].status = "processing"]
    /\ tasks' = [tasks EXCEPT ![i].pc = "running"]
    /\ UNCHANGED <<config, stats, phase, returned, outcome, stats0, now,
                   deadline, probe, ctor>>

\* The first slice of task i goes on, without giving up the event loop, to
\* its first await, or to the end of the coroutine when no step resolves.
task_enter_loop(i) ==
    /\ tasks[i].pc = "running"
    /\ Advance(i, 1, records, tasks)
    /\ UNCHANGED <<config, stats, phase, returned, outcome, stats0, now,
                   deadline, probe, ctor>>

\* task_step with the handler logging the exception and not re-raising it:
\* the loop goes on with the next step.
task_step_swallow(i) ==
    /\ BetweenSlices
    /\ tasks[i].pc = "sleeping"
    /\ \A j \in DOMAIN tasks : tasks[j].pc # "created"
    /\ LET name == config.processing_steps[tasks[i].step]
           res == CallProcessor(name, records[tasks[i].rec], config, now)
       IN  IF res.raised
           THEN Advance(i, tasks[i].step + 1, records, tasks)
           ELSE Advance(i, tasks[i].step + 1,
                        [records EXCEPT ![tasks[i].rec] = res.rec],
                        [tasks EXCEPT ![i].applied = Append(@, name)])
    /\ UNCHANGED <<config, stats, phase, returned, outcome, stats0, now,
                   deadline, probe, ctor>>

\* task_step with a processor's exception ending the sibling tasks as
\* well.
task_step_abort_siblings(i) ==
    /\ BetweenSlices
    /\ tasks[i].pc = "sleeping"
    /\ \A j \in DOMAIN tasks : tasks[j].pc # "created"
    /\ LET name == config.processing_steps[tasks[i].step]
           res == CallProcessor(name, records[tasks[i].rec], config, now)
       IN  IF res.raised
           THEN /\ tasks' = [j \in DOMAIN tasks |->
                               IF Finished(tasks[j]) THEN tasks[j]
                               ELSE [tasks[j] EXCEPT
                                         !.pc = "raised",
                                         !.rank = NextRank(tasks)]]
                /\ records' = records
           ELSE Advance(i, tasks[i].step + 1,
                        [records EXCEPT ![tasks[i].rec] = res.rec],
                        [tasks EXCEPT ![i].applied = Append(@, name)])
    /\ UNCHANGED <<config, stats, phase, returned, outcome, stats0, now,
                   deadline, probe, ctor>>

\* A later slice of task i: the sleep is over, the processor runs, and the
\* loop goes on to the next await, or ends, or the processor's exception
\* leaves the coroutine.
task_step(i) ==
    /\ BetweenSlices
    /\ tasks[i].pc = "sleeping"
    /\ \A j \in DOMAIN tasks : tasks[j].pc # "created"
    /\ LET name == config.processing_steps[tasks[i].step]
           res == CallProcessor(name, records[tasks[i].rec], config, now)
       IN  IF res.raised
           THEN /\ tasks' = [tasks EXCEPT ![i].pc = "raised",
                                          ![i].rank = NextRank(tasks)]
                /\ records' = records
           ELSE Advance(i, tasks[i].step + 1,
                        [records EXCEPT ![tasks[i].rec] = res.rec],
                        [tasks EXCEPT ![i].applied = Append(@, name)])
    /\ UNCHANGED <<config, stats, phase, returned, outcome, stats0, now,
                   deadline, probe, ctor>>

----------------------------------------------------------------------------
(* process_batch *)

\* HandleResults incrementing 'processed' from the value it had when the
\* loop began (a lost update).
RECURSIVE HandleResults_lost_update(_, _, _, _, _)
HandleResults_lost_update(i, tks, recs, st, out) ==
    IF i > Len(tks) THEN [records |-> recs, stats |-> st, out |-> out]
    ELSE IF tks[i].pc = "raised"
         THEN HandleResults_lost_update(i + 1, tks,
                  [recs EXCEPT ![tks[i].rec].status = "failed"],
                  [st EXCEPT !.failed = @ + 1], out)
         ELSE HandleResults_lost_update(i + 1, tks, recs,
                  [st EXCEPT !.processed = stats.processed + 1],
                  Append(out, tks[i].rec))

\* HandleResults without the else: a failed result is appended as well.
RECURSIVE HandleResults_no_else(_, _, _, _, _)
HandleResults_no_else(i, tks, recs, st, out) ==
    IF i > Len(tks) THEN [records |-> recs, stats |-> st, out |-> out]
    ELSE IF tks[i].pc = "raised"
         THEN HandleResults_no_else(i + 1, tks,
                  [recs EXCEPT ![tks[i].rec].status = "failed"],
                  [st EXCEPT !.failed = @ + 1], Append(out, tks[i].rec))
         ELSE HandleResults_no_else(i + 1, tks, recs,
                  [st EXCEPT !.processed = @ + 1],
                  Append(out, tks[i].rec))

\* HandleResults marking records[0] FAILED whichever result failed.
RECURSIVE HandleResults_first_index(_, _, _, _, _)
HandleResults_first_index(i, tks, recs, st, out) ==
    IF i > Len(tks) THEN [records |-> recs, stats |-> st, out |-> out]
    ELSE IF tks[i].pc = "raised"
         THEN HandleResults_first_index(i + 1, tks,
                  [recs EXCEPT ![tks[1].rec].status = "failed"],
                  [st EXCEPT !.failed = @ + 1], out)
         ELSE HandleResults_first_index(i + 1, tks, recs,
                  [st EXCEPT !.processed = @ + 1],
                  Append(out, tks[i].rec))

\* HandleResults counting a failed result as processed too.
RECURSIVE HandleResults_double_count(_, _, _, _, _)
HandleResults_double_count(i, tks, recs, st, out) ==
    IF i > Len(tks) THEN [records |-> recs, stats |-> st, out |-> out]
    ELSE IF tks[i].pc = "raised"
         THEN HandleResults_double_count(i + 1, tks,
                  [recs EXCEPT ![tks[i].rec].status = "failed"],
                  [st EXCEPT !.failed = @ + 1, !.processed = @ + 1], out)
         ELSE HandleResults_double_count(i + 1, tks, recs,
                  [st EXCEPT !.processed = @ + 1],
                  Append(out, tks[i].rec))

\* HandleResults putting each success in front of the earlier ones.
RECURSIVE HandleResults_prepend(_, _, _, _, _)
HandleResults_prepend(i, tks, recs, st, out) ==
    IF i > Len(tks) THEN [records |-> recs, stats |-> st, out |-> out]
    ELSE IF tks[i].pc = "raised"
         THEN HandleResults_prepend(i + 1, tks,
                  [recs EXCEPT ![tks[i].rec].status = "failed"],
                  [st EXCEPT !.failed = @ + 1], out)
         ELSE HandleResults_prepend(i + 1, tks, recs,
                  [st EXCEPT !.processed = @ + 1],
                  <<tks[i].rec>> \o out)

\* The loop over results: a raised task marks records[i] FAILED and counts
\* as failed, any other result is appended and counts as processed.
RECURSIVE HandleResults(_, _, _, _, _)
HandleResults(i, tks, recs, st, out) ==
    IF i > Len(tks) THEN [records |-> recs, stats |-> st, out |-> out]
    ELSE IF tks[i].pc = "raised"
         THEN HandleResults(i + 1, tks,
                            [recs EXCEPT ![tks[i].rec].status = "failed"],
                            [st EXCEPT !.failed = @ + 1], out)
         ELSE HandleResults(i + 1, tks, recs,
                            [st EXCEPT !.processed = @ + 1],
                            Append(out, tks[i].rec))

\* The caller builds one record.  A negative value raises in __post_init__
\* and no record comes to exist.
DataRecord(v, tg) ==
    /\ phase = "idle"
    /\ IF post_init_raises(v)
       THEN /\ records' = records
            /\ ctor' = [v |-> v, raised |-> TRUE, n |-> Len(records)]
       ELSE /\ Len(records) < MaxRecords
            /\ records' = Append(records, NewRecord(v, tg))
            /\ ctor' = [v |-> v, raised |-> FALSE, n |-> Len(records)]
    /\ UNCHANGED <<config, stats, tasks, phase, returned, outcome, stats0,
                   now, deadline, probe>>

\* process_batch starting every batch with the counters at zero.
process_batch_reset(batch) ==
    /\ phase = "idle"
    /\ \A i \in DOMAIN batch : records[batch[i]].status = "pending"
    /\ tasks' = [i \in DOMAIN batch |->
                    [rec |-> batch[i], pc |-> "created", step |-> 0,
                     applied |-> <<>>, input |-> records[batch[i]],
                     rank |-> 0]]
    /\ phase' = "running"
    /\ deadline' = now + config.timeout
    /\ stats' = [stats EXCEPT !.processed = 0, !.failed = 0]
    /\ stats0' = stats'
    /\ outcome' = "none"
    /\ returned' = <<>>
    /\ ctor' = NoCall
    /\ UNCHANGED <<config, records, now, probe>>

\* process_batch(records) up to its await: one task per record, and the
\* timer of wait_for.  The caller passes records it has not processed yet.
process_batch(batch) ==
    /\ phase = "idle"
    /\ \A i \in DOMAIN batch : records[batch[i]].status = "pending"
    /\ tasks' = [i \in DOMAIN batch |->
                    [rec |-> batch[i], pc |-> "created", step |-> 0,
                     applied |-> <<>>, input |-> records[batch[i]],
                     rank |-> 0]]
    /\ phase' = "running"
    /\ deadline' = now + config.timeout
    /\ stats0' = stats
    /\ outcome' = "none"
    /\ returned' = <<>>
    /\ ctor' = NoCall
    /\ UNCHANGED <<config, records, stats, now, probe>>

\* process_batch_join with gather's default return_exceptions=False: the
\* first exception of a task leaves process_batch, which returns nothing.
process_batch_join_propagate ==
    /\ phase = "running"
    /\ BetweenSlices
    /\ IF \E i \in DOMAIN tasks : tasks[i].pc = "raised"
       THEN /\ outcome' = "raised"
            /\ UNCHANGED <<records, stats, returned>>
       ELSE /\ \A i \in DOMAIN tasks : Finished(tasks[i])
            /\ LET h == HandleResults(1, tasks, records, stats, <<>>)
               IN  /\ records' = h.records
                   /\ stats' = h.stats
                   /\ returned' = h.out
            /\ outcome' = "joined"
    /\ phase' = "idle"
    /\ deadline' = 0
    /\ UNCHANGED <<config, tasks, stats0, now, probe, ctor>>

\* gather is done before the timer is seen: the results are handled and the
\* successes returned.
process_batch_join ==
    /\ phase = "running"
    /\ BetweenSlices
    /\ \A i \in DOMAIN tasks : Finished(tasks[i])
    /\ LET h == HandleResults(1, tasks, records, stats, <<>>)
       IN  /\ records' = h.records
           /\ stats' = h.stats
           /\ returned' = h.out
    /\ phase' = "idle"
    /\ outcome' = "joined"
    /\ deadline' = 0            \* wait_for cancels its timer on the way out
    /\ UNCHANGED <<config, tasks, stats0, now, probe, ctor>>

\* process_batch_timeout marking every record of the batch Failed and
\* counting it.
process_batch_timeout_marks ==
    /\ phase = "running"
    /\ BetweenSlices
    /\ now >= deadline
    /\ \E i \in DOMAIN tasks : ~Finished(tasks[i])
    /\ \A i \in DOMAIN tasks : tasks[i].pc # "created"
    /\ tasks' = [i \in DOMAIN tasks |->
                    IF Finished(tasks[i]) THEN tasks[i]
                    ELSE [tasks[i] EXCEPT !.pc = "cancelled"]]
    /\ records' = [r \in DOMAIN records |->
                      IF \E i \in DOMAIN tasks : tasks[i].rec = r
                      THEN [records[r] EXCEPT !.status = "failed"]
                      ELSE records[r]]
    /\ stats' = [stats EXCEPT !.failed = @ + Len(tasks)]
    /\ returned' = <<>>
    /\ phase' = "idle"
    /\ outcome' = "timeout"
    /\ deadline' = 0
    /\ UNCHANGED <<config, stats0, now, probe, ctor>>

\* process_batch_timeout leaving the outstanding tasks running.
process_batch_timeout_no_cancel ==
    /\ phase = "running"
    /\ BetweenSlices
    /\ now >= deadline
    /\ \E i \in DOMAIN tasks : ~Finished(tasks[i])
    /\ \A i \in DOMAIN tasks : tasks[i].pc # "created"
    /\ returned' = <<>>
    /\ phase' = "idle"
    /\ outcome' = "timeout"
    /\ deadline' = 0
    /\ UNCHANGED <<config, records, stats, tasks, stats0, now, probe, ctor>>

\* process_batch_timeout returning the records whose tasks had returned.
process_batch_timeout_partial ==
    /\ phase = "running"
    /\ BetweenSlices
    /\ now >= deadline
    /\ \E i \in DOMAIN tasks : ~Finished(tasks[i])
    /\ \A i \in DOMAIN tasks : tasks[i].pc # "created"
    /\ tasks' = [i \in DOMAIN tasks |->
                    IF Finished(tasks[i]) THEN tasks[i]
                    ELSE [tasks[i] EXCEPT !.pc = "cancelled"]]
    /\ returned' = HandleResults(1, SelectSeq(tasks, LAMBDA t : t.pc = "done"),
                                 records, stats, <<>>).out
    /\ phase' = "idle"
    /\ outcome' = "timeout"
    /\ deadline' = 0
    /\ UNCHANGED <<config, records, stats, stats0, now, probe, ctor>>

\* The timer fires with gather not done: wait_for cancels gather, which
\* cancels every task still pending, waits for them, and raises
\* TimeoutError; process_batch returns [].  A cancelled task gets
\* CancelledError at its await; it is no Exception, so nothing handles it.
process_batch_timeout ==
    /\ phase = "running"
    /\ BetweenSlices
    /\ now >= deadline
    /\ \E i \in DOMAIN tasks : ~Finished(tasks[i])
    /\ \A i \in DOMAIN tasks : tasks[i].pc # "created"
    /\ tasks' = [i \in DOMAIN tasks |->
                    IF Finished(tasks[i]) THEN tasks[i]
                    ELSE [tasks[i] EXCEPT !.pc = "cancelled"]]
    /\ returned' = <<>>
    /\ phase' = "idle"
    /\ outcome' = "timeout"
    /\ deadline' = 0
    /\ UNCHANGED <<config, records, stats, stats0, now, probe, ctor>>

\* A second passes.
Tick ==
    /\ now < MaxClock
    /\ now' = now + 1
    /\ UNCHANGED <<config, records, stats, tasks, phase, returned, outcome,
                   stats0, deadline, probe, ctor>>

----------------------------------------------------------------------------
(* get_statistics *)

Max(a, b) == IF a >= b THEN a ELSE b

\* n / d: ZeroDivisionError when d is 0, else the quotient as a fraction.
Divide(n, d) == [raised |-> d = 0, num |-> n, den |-> d]

\* get_statistics dividing by the runtime and by the total as they are.
get_statistics_unguarded ==
    LET runtime == now - stats.start_time
    IN  [processed |-> stats.processed,
         failed |-> stats.failed,
         start_time |-> stats.start_time,
         runtime_seconds |-> runtime,
         records_per_second |-> Divide(stats.processed, runtime),
         success_rate |->
             Divide(stats.processed, stats.processed + stats.failed)]

\* The dict get_statistics returns in the current state.
get_statistics ==
    LET runtime == now - stats.start_time
    IN  [processed |-> stats.processed,
         failed |-> stats.failed,
         start_time |-> stats.start_time,
         runtime_seconds |-> runtime,
         records_per_second |-> Divide(stats.processed, Max(runtime, 1)),
         success_rate |->
             Divide(stats.processed,
                    Max(stats.processed + stats.failed, 1))]

----------------------------------------------------------------------------
(* The processor and its caller *)

\* DataProcessor.__init__
Init ==
    /\ config \in Configs
    /\ records = <<>>
    /\ stats = [processed |-> 0, failed |-> 0, start_time |-> 0]
    /\ tasks = <<>>
    /\ phase = "idle"
    /\ returned = <<>>
    /\ outcome = "none"
    /\ stats0 = stats
    /\ now = 0
    /\ deadline = 0
    /\ probe = NoProbe
    /\ ctor = NoCall

Next ==
    \/ \E in \in RecordInputs : DataRecord(in[1], in[2])
    \/ \E b \in Sublists(DOMAIN records) : process_batch(b)
    \/ \E i \in DOMAIN tasks : task_start(i)
    \/ \E i \in DOMAIN tasks : task_enter_loop(i)
    \/ \E i \in DOMAIN tasks : task_step(i)
    \/ process_batch_join
    \/ process_batch_timeout
    \/ Tick

Spec == Init /\ [][Next]_vars

\* A processor configured with the default step list, a list with an
\* unknown name, or the empty list.
FairInit ==
    /\ Init
    /\ config.processing_steps
           \in {DefaultSteps, <<"validate", "bogus", "normalize">>, <<>>}

\* The event loop runs every callback that is ready: a task whose turn has
\* come, the continuation of process_batch once gather is done, and the
\* timer of wait_for once the deadline has passed.
FairSpec ==
    /\ FairInit
    /\ [][Next]_vars
    /\ WF_vars(\E i \in DOMAIN tasks : task_start(i))
    /\ WF_vars(\E i \in DOMAIN tasks : task_enter_loop(i))
    /\ WF_vars(\E i \in DOMAIN tasks : task_step(i))
    /\ WF_vars(process_batch_join)
    /\ WF_vars(process_batch_timeout)
    /\ WF_vars(Tick)

----------------------------------------------------------------------------
(* The processing steps called directly, one record at a time, as a unit   *)
(* test of a step does.                                                    *)

\* validation_rules with a lower bound above 0 and a single required tag.
OtherRules ==
    [min_value |-> 1 * Scale, max_value |-> 100 * Scale,
     required_tags |-> <<"source">>]

StepConfigs ==
    [timeout : {1},
     validation_rules : {DefaultRules, OtherRules},
     processing_steps : {DefaultSteps}]

\* The values at which a step changes behaviour: the validation bounds,
\* the category boundaries 30 and 70, 83.33 (where value * 1.2 reaches 100)
\* and the normalization threshold 100.
Boundaries ==
    {0, 1 * Scale, 30 * Scale, 70 * Scale, 8333, 100 * Scale, 1000 * Scale}

\* The values of the records a step is called on: every whole number up to
\* MaxUnits, and every hundredth within Window of a boundary.
StepValues ==
    {Scale * k : k \in 0..MaxUnits}
    \cup {v \in UNION {(b - Window)..(b + Window) : b \in Boundaries} :
            v >= 0}

StepTagLists ==
    {<<>>, <<"source">>, <<"source", "type">>, <<"type", "api", "source">>}

\* More calls than this on one record are not followed.
MaxCalls == 2

\* processor(record) for one of the registered processors.
call_step(name) ==
    /\ probe.n < MaxCalls
    /\ LET res == CallProcessor(name, records[1], config, now)
       IN  /\ records' = [records EXCEPT ![1] = res.rec]
           /\ probe' = [step |-> name, before |-> records[1],
                        raised |-> res.raised, n |-> probe.n + 1]
    /\ UNCHANGED <<config, stats, tasks, phase, returned, outcome, stats0,
                   now, deadline, ctor>>

StepsInit ==
    /\ config \in StepConfigs
    /\ \E v \in StepValues, tg \in StepTagLists :
           records = <<NewRecord(v, tg)>>
    /\ stats = [processed |-> 0, failed |-> 0, start_time |-> 0]
    /\ tasks = <<>>
    /\ phase = "idle"
    /\ returned = <<>>
    /\ outcome = "none"
    /\ stats0 = stats
    /\ now = 0
    /\ deadline = 0
    /\ probe = NoProbe
    /\ ctor = NoCall

StepsNext == \E name \in processors : call_step(name)

SpecSteps == StepsInit /\ [][StepsNext]_vars

----------------------------------------------------------------------------
(* Reference definitions for the properties below *)

\* The number of records of the current (or last) batch.
BatchLen == Len(tasks)

\* processing_steps with the unknown names removed.
KnownSteps ==
    SelectSeq(config.processing_steps, LAMBDA n : n \in processors)

\* A record run through a list of registered steps one after another, with
\* nothing else running in between, up to the first step that raises.
RECURSIVE RunSteps(_, _, _, _)
RunSteps(rec, names, cfg, t) ==
    IF names = <<>> THEN Returns(rec)
    ELSE LET r == CallProcessor(Head(names), rec, cfg, t)
         IN  IF r.raised THEN r
             ELSE RunSteps(r.rec, Tail(names), cfg, t)

\* A record's value, tags and metadata, the processing_time stamp blanked.
Content(rec) ==
    [value |-> rec.value, tags |-> rec.tags,
     metadata |-> IF "processing_time" \in DOMAIN rec.metadata
                  THEN DictSet(rec.metadata, "processing_time", 0)
                  ELSE rec.metadata]

\* The record task i was given passes validation as submitted.
InputValid(i) ==
    LET rules == config.validation_rules
        in == tasks[i].input
    IN  /\ rules.min_value <= in.value
        /\ in.value <= rules.max_value
        /\ Range(rules.required_tags) \subseteq Range(in.tags)

\* The record task i was given fails a step when run alone.
InputFails(i) == RunSteps(tasks[i].input, KnownSteps, config, 0).raised

\* The records of the batch, in input order.
BatchRecords == [i \in DOMAIN tasks |-> tasks[i].rec]

----------------------------------------------------------------------------
(* Properties of process_batch (specification Spec) *)

\* C1: a batch of N records that all pass validation, joined before the
\* deadline is seen, returns exactly those N records, and adds N to
\* processed and 0 to failed, whatever the interleaving of the tasks.
C1_AllValidBatch ==
    (outcome = "joined" /\ \A i \in DOMAIN tasks : InputValid(i))
    => /\ Len(returned) = BatchLen
       /\ Range(returned) = Range(BatchRecords)
       /\ stats.processed = stats0.processed + BatchLen
       /\ stats.failed = stats0.failed

\* A joined batch of two valid records under the default steps.
C1_Witness ==
    /\ outcome = "joined"
    /\ BatchLen >= 2
    /\ \A i \in DOMAIN tasks : InputValid(i)
    /\ config.processing_steps = DefaultSteps
    /\ stats.processed = BatchLen

\* C2: in a joined batch where exactly one record k fails a step, the
\* other N-1 records are returned, failed grows by 1, record k is Failed
\* and every other record is Completed.
C2_OneFailure ==
    (outcome = "joined"
        /\ Cardinality({i \in DOMAIN tasks : InputFails(i)}) = 1)
    => LET k == CHOOSE i \in DOMAIN tasks : InputFails(i)
       IN  /\ Len(returned) = BatchLen - 1
           /\ Range(returned) = Range(BatchRecords) \ {tasks[k].rec}
           /\ stats.failed = stats0.failed + 1
           /\ records[tasks[k].rec].status = "failed"
           /\ \A i \in DOMAIN tasks \ {k} :
                  records[tasks[i].rec].status = "completed"

\* A joined batch of two records, the second of which failed validate.
C2_Witness ==
    /\ outcome = "joined"
    /\ BatchLen = 2
    /\ "validate" \in Range(config.processing_steps)
    /\ ~InputFails(1) /\ InputFails(2)
    /\ records[tasks[1].rec].status = "completed"
    /\ records[tasks[2].rec].status = "failed"
    /\ returned = <<tasks[1].rec>>

\* C3: a call that ends by the deadline firing while a task is unfinished
\* returns the empty list, however many records had completed every step.
C3_TimeoutReturnsEmpty ==
    outcome = "timeout"
    => /\ returned = <<>>
       /\ \E i \in DOMAIN tasks : tasks[i].pc = "cancelled"

\* A timed-out batch one of whose records had completed all its steps.
C3_Witness ==
    /\ outcome = "timeout"
    /\ returned = <<>>
    /\ \E i \in DOMAIN tasks :
          /\ tasks[i].pc = "done"
          /\ tasks[i].applied = DefaultSteps
          /\ records[tasks[i].rec].status = "completed"

\* C4: every returned record had every resolvable step applied, in the
\* configured order, none raising, and is Completed; a record whose task
\* raised is not returned.
C4_ReturnedAreComplete ==
    /\ \A n \in DOMAIN returned :
          \E i \in DOMAIN tasks :
              /\ tasks[i].rec = returned[n]
              /\ tasks[i].pc = "done"
              /\ tasks[i].applied = KnownSteps
              /\ records[returned[n]].status = "completed"
    /\ \A i \in DOMAIN tasks :
          tasks[i].pc = "raised" => tasks[i].rec \notin Range(returned)

\* A returned record next to one that raised, under steps where validate
\* is not the first step.
C4_Witness ==
    /\ returned # <<>>
    /\ \E i \in DOMAIN tasks : tasks[i].pc = "raised"
    /\ Len(KnownSteps) >= 2
    /\ KnownSteps[1] # "validate"

\* The moves of a record's status within a pass.
StatusMoves ==
    {<<"pending", "processing">>, <<"processing", "completed">>,
     <<"processing", "failed">>}

\* C5: a record starts Pending and its status only moves Pending ->
\* Processing, Processing -> Completed, Processing -> Failed.
C5_StatusMovesForward ==
    [][/\ \A r \in DOMAIN records :
             records'[r].status # records[r].status
             => <<records[r].status, records'[r].status>> \in StatusMoves
       /\ \A r \in DOMAIN records' \ DOMAIN records :
             records'[r].status = "pending"]_vars

\* A joined batch with a Completed and a Failed record.
C5_Witness ==
    /\ outcome = "joined"
    /\ \E r \in DOMAIN records : records[r].status = "completed"
    /\ \E r \in DOMAIN records : records[r].status = "failed"

\* C6: the processed and failed counters are never negative and never
\* decrease, across batches that succeed, partly fail or time out.
C6_CountersMonotone ==
    [][/\ stats'.processed >= stats.processed
       /\ stats'.failed >= stats.failed
       /\ stats.processed >= 0 /\ stats.failed >= 0
       /\ stats'.processed >= 0 /\ stats'.failed >= 0]_vars

\* A second batch is under way, or over, after a first one was counted.
C6_Witness ==
    /\ stats0.processed + stats0.failed >= 1
    /\ stats.processed >= stats0.processed
    /\ stats.failed >= stats0.failed
    /\ outcome \in {"joined", "timeout"}

\* C7: in a call that joins, each record adds one to exactly one of the
\* counters: processed grows by the number of tasks that returned, failed
\* by the number that raised, and their sum by the batch length.
C7_CountedOnce ==
    outcome = "joined"
    => /\ stats.processed - stats0.processed
              = Cardinality({i \in DOMAIN tasks : tasks[i].pc = "done"})
       /\ stats.failed - stats0.failed
              = Cardinality({i \in DOMAIN tasks : tasks[i].pc = "raised"})
       /\ stats.processed + stats.failed
              = stats0.processed + stats0.failed + BatchLen

\* A joined batch with one record counted as processed and one as failed.
C7_Witness ==
    /\ outcome = "joined"
    /\ BatchLen = 2
    /\ stats.processed = stats0.processed + 1
    /\ stats.failed = stats0.failed + 1

\* C9: unknown step names are skipped: a finished task leaves its record as
\* running the known names alone does, fails exactly when that run fails,
\* and after the join the counters moved as that run says.
C9_UnknownStepsSkipped ==
    /\ \A i \in DOMAIN tasks :
          Finished(tasks[i])
          => LET ref == RunSteps(tasks[i].input, KnownSteps, config, 0)
             IN  /\ (tasks[i].pc = "raised") = ref.raised
                 /\ Content(records[tasks[i].rec]) = Content(ref.rec)
                 /\ tasks[i].pc = "done"
                        => records[tasks[i].rec].status = "completed"
    /\ outcome = "joined"
       => stats.failed - stats0.failed
              = Cardinality({i \in DOMAIN tasks : InputFails(i)})

\* A record completed under a step list that holds an unknown name and a
\* step that changed the record.
C9_Witness ==
    /\ UnknownStep \in Range(config.processing_steps)
    /\ \E i \in DOMAIN tasks :
          /\ tasks[i].pc = "done"
          /\ tasks[i].applied # <<>>
          /\ records[tasks[i].rec] # tasks[i].input
          /\ records[tasks[i].rec].status = "completed"

\* C13: get_statistics never divides by zero: both denominators are at
\* least 1 in every state, the first one included, and success_rate is
\* processed / max(processed + failed, 1), between 0 and 1.
C13_StatisticsDefined ==
    LET g == get_statistics
        total == stats.processed + stats.failed
    IN  /\ ~g.records_per_second.raised
        /\ ~g.success_rate.raised
        /\ g.records_per_second.den >= 1
        /\ g.success_rate.den >= 1
        /\ g.success_rate.den = (IF total = 0 THEN 1 ELSE total)
        /\ g.success_rate.num = stats.processed
        /\ 0 <= g.success_rate.num
        /\ g.success_rate.num <= g.success_rate.den

\* Right after construction: nothing counted, no time passed, rate 0 / 1.
C13_Witness ==
    /\ records = <<>>
    /\ stats.processed = 0 /\ stats.failed = 0
    /\ now = stats.start_time
    /\ get_statistics.success_rate = Divide(0, 1)
    /\ get_statistics.records_per_second = Divide(0, 1)

\* C14: every record has value >= 0 in every state: a DataRecord(...) call
\* with a negative value raises and leaves the caller's records as they
\* were, a call with another value adds the record, and no step of any
\* configured list makes a value negative.
C14_ValuesNonNegative ==
    /\ \A r \in DOMAIN records : records[r].value >= 0
    /\ ctor.n >= 0
       => IF ctor.v < 0
          THEN ctor.raised /\ Len(records) = ctor.n
          ELSE /\ ~ctor.raised
               /\ Len(records) = ctor.n + 1
               /\ records[ctor.n + 1].value = ctor.v

\* DataRecord(value = -0.01) has just raised, after a record went through
\* normalize, which took its value from 100.04 to 100.00.
C14_Witness ==
    /\ ctor.raised
    /\ ctor.v < 0
    /\ Len(records) = ctor.n
    /\ \E r \in DOMAIN records :
          /\ records[r].status = "completed"
          /\ "normalized" \in DOMAIN records[r].metadata
          /\ records[r].value = 100 * Scale

\* Task i so far: its record is Processing before any step runs on it, the
\* steps applied are the resolvable ones in configured order, a task that
\* returned applied them all and set Completed, and a task that raised
\* stopped at the step that raises, with nothing applied after it.
ExecutorInOrder(i) ==
    LET t == tasks[i]
        st == records[t.rec].status
        k == Len(t.applied)
    IN  /\ (t.pc = "created") = (st = "pending")
        /\ t.pc \in {"running", "sleeping", "cancelled"} => st = "processing"
        /\ k <= Len(KnownSteps)
        /\ t.applied = SubSeq(KnownSteps, 1, k)
        /\ t.pc = "done" => (k = Len(KnownSteps) /\ st = "completed")
        /\ t.pc = "raised"
               => /\ k < Len(KnownSteps)
                  /\ CallProcessor(KnownSteps[k + 1], records[t.rec],
                                   config, now).raised
                  /\ Content(records[t.rec])
                         = Content(RunSteps(t.input, t.applied, config,
                                            0).rec)
                  /\ st # "completed"

\* C15 as stated: the above, and once process_batch has returned, the
\* record of every task that raised has been marked Failed.
C15_Original ==
    \A i \in DOMAIN tasks :
        /\ ExecutorInOrder(i)
        /\ (tasks[i].pc = "raised" /\ phase = "idle")
               => records[tasks[i].rec].status = "failed"

\* C15 amended: the above, and the record of a task that raised is marked
\* Failed by the join; until then, and for good when the call times out,
\* it stays Processing.
C15_ExecutorShortCircuits ==
    \A i \in DOMAIN tasks :
        /\ ExecutorInOrder(i)
        /\ tasks[i].pc = "raised"
               => records[tasks[i].rec].status
                      = (IF outcome = "joined" THEN "failed"
                         ELSE "processing")

\* After the join: a task that raised in validate, the first of the four
\* default steps; its record is Failed and no later step touched it.
C15_Witness ==
    /\ outcome = "joined"
    /\ config.processing_steps = DefaultSteps
    /\ \E i \in DOMAIN tasks :
          /\ tasks[i].pc = "raised"
          /\ tasks[i].applied = <<>>
          /\ records[tasks[i].rec].status = "failed"
          /\ records[tasks[i].rec].metadata = EmptyDict
          /\ records[tasks[i].rec].tags = tasks[i].input.tags

\* C16: the step in which process_batch returns on a timeout changes no
\* record and no counter, and after it the counters are those of the
\* start of the call, nothing was returned, and no record of the batch is
\* Failed: each still has the status its task gave it (Processing, or
\* Completed for a task that had returned).
C16_TimeoutChangesNothing ==
    [][/\ (phase = "running" /\ outcome' = "timeout")
              => /\ records' = records
                 /\ stats' = stats
                 /\ returned' = <<>>
       /\ outcome' = "timeout"
              => /\ stats' = stats0'
                 /\ \A i \in DOMAIN tasks' :
                        records'[tasks'[i].rec].status
                            = (IF tasks'[i].pc = "done" THEN "completed"
                               ELSE "processing")]_vars

\* A timed-out batch in which one task had raised and another was
\* cancelled: both records are still Processing, nothing was counted.
C16_Witness ==
    /\ outcome = "timeout"
    /\ stats = stats0
    /\ \E i, j \in DOMAIN tasks :
          /\ tasks[i].pc = "raised"
          /\ tasks[j].pc = "cancelled"
          /\ records[tasks[i].rec].status = "processing"
          /\ records[tasks[j].rec].status = "processing"

\* C17: once process_batch has returned on a timeout, every task of that
\* batch has returned, raised or been cancelled, and a record changes only
\* while a call is running, through a task of that call that was not
\* cancelled: nothing of an earlier batch is touched again.
C17_NoWorkAfterTimeout ==
    [][/\ outcome' = "timeout"
              => \A i \in DOMAIN tasks' :
                     tasks'[i].pc \in {"done", "raised", "cancelled"}
       /\ \A r \in DOMAIN records :
              records'[r] # records[r]
                  => /\ phase = "running"
                     /\ \E i \in DOMAIN tasks :
                            /\ tasks[i].rec = r
                            /\ tasks[i].pc # "cancelled"]_vars

\* A second batch was joined after a first one timed out: the record of
\* the cancelled first batch, no longer among the tasks, is still
\* Processing with its value untouched, while the second batch's record
\* went through all four steps.
C17_Witness ==
    /\ outcome = "joined"
    /\ config.processing_steps = DefaultSteps
    /\ \E r \in DOMAIN records :
          /\ \A i \in DOMAIN tasks : tasks[i].rec # r
          /\ records[r].status = "processing"
          /\ records[r].metadata = EmptyDict
    /\ \E i \in DOMAIN tasks :
          /\ tasks[i].pc = "done"
          /\ Len(tasks[i].applied) = 4

\* C18: under FairSpec every call of process_batch returns: it joined its
\* tasks and returned the successes, or it timed out and returned [].
C18_BatchReturns ==
    (phase = "running")
        ~> (/\ phase = "idle"
            /\ \/ outcome = "joined"
               \/ outcome = "timeout" /\ returned = <<>>)

\* A call on two records has returned after both tasks ran to their end,
\* one through all four default steps and one raising on the way.
C18_Witness ==
    /\ phase = "idle"
    /\ outcome = "joined"
    /\ Len(tasks) = 2
    /\ config.processing_steps = DefaultSteps
    /\ \E i, j \in DOMAIN tasks :
          /\ tasks[i].pc = "done"
          /\ tasks[j].pc = "raised"

\* What becomes of the record task i was given when it is processed alone,
\* step after step, and its result handled: its content, its status, and
\* whether it is returned.
ProcessedAlone(i) ==
    LET ref == RunSteps(tasks[i].input, KnownSteps, config, 0)
    IN  [content |-> Content(ref.rec),
         status |-> IF ref.raised THEN "failed" ELSE "completed",
         returned |-> ~ref.raised]

\* C19: a slice of a task changes the record of that task only and no
\* other task; a step that raises changes no record and no other task;
\* and once the batch is joined every record is what ProcessedAlone says,
\* whatever the interleaving was.
C19_InterleavingIndependent ==
    /\ [][(phase = "running" /\ phase' = "running")
              => \A i \in DOMAIN tasks :
                     tasks'[i] # tasks[i]
                         => /\ \A j \in DOMAIN tasks \ {i} :
                                   tasks'[j] = tasks[j]
                            /\ \A r \in DOMAIN records \ {tasks[i].rec} :
                                   records'[r] = records[r]
                            /\ tasks'[i].pc = "raised"
                                   => records' = records]_vars
    /\ [](outcome = "joined"
              => \A i \in DOMAIN tasks :
                     LET r == tasks[i].rec
                         alone == ProcessedAlone(i)
                     IN  /\ Content(records[r]) = alone.content
                         /\ records[r].status = alone.status
                         /\ (r \in Range(returned)) = alone.returned)

\* Under the default steps the second task of a batch finished first,
\* completing its record through all four steps, and the first task then
\* raised: the second record is returned, the first is Failed.
C19_Witness ==
    /\ outcome = "joined"
    /\ config.processing_steps = DefaultSteps
    /\ Len(tasks) = 2
    /\ tasks[2].pc = "done" /\ tasks[2].rank = 1
    /\ tasks[1].pc = "raised" /\ tasks[1].rank = 2
    /\ records[tasks[2].rec].status = "completed"
    /\ records[tasks[1].rec].status = "failed"
    /\ returned = <<tasks[2].rec>>

\* C20: the list a joined call returns is the input batch without its
\* Failed records, in input order; all that remain are Completed.
C20_ReturnedInInputOrder ==
    outcome = "joined"
    => /\ returned = SelectSeq(BatchRecords,
                               LAMBDA r : records[r].status # "failed")
       /\ returned = SelectSeq(BatchRecords,
                               LAMBDA r : records[r].status = "completed")

\* Two records, both successful, whose tasks finished in the reverse of
\* the input order, returned in input order.
C20_Witness ==
    /\ outcome = "joined"
    /\ Len(tasks) = 2
    /\ tasks[1].pc = "done" /\ tasks[2].pc = "done"
    /\ tasks[2].rank < tasks[1].rank
    /\ tasks[1].applied # <<>>
    /\ returned = <<tasks[1].rec, tasks[2].rec>>

----------------------------------------------------------------------------
(* Properties of the steps (specification SpecSteps) *)

\* C8: validate raises exactly when the value is outside
\* [min_value, max_value] or a required tag is missing, and a record it
\* accepts is left as it was.
C8_ValidateExact ==
    probe.step = "validate"
    => LET rules == config.validation_rules
           b == probe.before
       IN  /\ probe.raised
               = (\/ b.value < rules.min_value
                  \/ b.value > rules.max_value
                  \/ \E i \in DOMAIN rules.required_tags :
                        \A j \in DOMAIN b.tags :
                            b.tags[j] # rules.required_tags[i])
           /\ ~probe.raised => records[1] = b

\* validate accepted a record whose value is max_value itself.
C8_Witness ==
    /\ probe.step = "validate"
    /\ ~probe.raised
    /\ probe.before.value = config.validation_rules.max_value
    /\ records[1] = probe.before

\* The result w of normalize on v > 100 is (80000 + v) / 9 hundredths
\* rounded to the nearest hundredth; at most 100 leaves the value alone.
NormalizeRounds(v, w) ==
    IF v > 100 * Scale
    THEN /\ 2 * (9 * w - (80000 + v)) <= 9
         /\ 2 * ((80000 + v) - 9 * w) <= 9
    ELSE w = v

\* C10 as stated: every value in (100, 1000] goes to a value in (100, 200].
C10_Original ==
    probe.step = "normalize"
    => LET v == probe.before.value
           w == records[1].value
       IN  /\ NormalizeRounds(v, w)
           /\ (v > 100 * Scale /\ v <= 1000 * Scale)
              => (w > 100 * Scale /\ w <= 200 * Scale)

\* C10 amended: every value in (100, 1000] goes to a value in [100, 200]
\* (the rounded rescaling), and a value <= 100 is unchanged.
C10_NormalizeRange ==
    probe.step = "normalize"
    => LET v == probe.before.value
           w == records[1].value
       IN  /\ NormalizeRounds(v, w)
           /\ (v > 100 * Scale /\ v <= 1000 * Scale)
              => (w >= 100 * Scale /\ w <= 200 * Scale)

\* normalize took 100.04, a value above 100, to 100.00.
C10_Witness ==
    /\ probe.step = "normalize"
    /\ probe.before.value = 100 * Scale + 4
    /\ records[1].value = 100 * Scale


\* C11: categorize gives every value exactly one category, low below 30,
\* medium from 30 to below 70, high from 70; it stores the category in
\* metadata["category"] and appends the one tag "category:<name>".
C11_CategorizePartition ==
    probe.step = "categorize"
    => LET v == probe.before.value
           after == records[1]
           c == after.metadata["category"]
       IN  /\ ~probe.raised
           /\ c \in {"low", "medium", "high"}
           /\ (c = "low") = (v < 30 * Scale)
           /\ (c = "medium") = (30 * Scale <= v /\ v < 70 * Scale)
           /\ (c = "high") = (v >= 70 * Scale)
           /\ Len(after.tags) = Len(probe.before.tags) + 1
           /\ SubSeq(after.tags, 1, Len(probe.before.tags)) = probe.before.tags
           /\ after.tags[Len(after.tags)] = "category:" \o c
           /\ after.value = v
           /\ after.status = probe.before.status

\* categorize put 30.00 itself in medium.
C11_Witness ==
    /\ probe.step = "categorize"
    /\ probe.before.value = 30 * Scale
    /\ records[1].metadata["category"] = "medium"
    /\ records[1].tags = Append(probe.before.tags, "category:medium")

\* C12: enrich sets quality_score to min(100, value * 1.2) (thousandths
\* here): never above 100, never negative.
C12_QualityScoreCapped ==
    probe.step = "enrich"
    => LET v == probe.before.value
           q == records[1].metadata["quality_score"]
       IN  /\ ~probe.raised
           /\ q <= 100 * 1000
           /\ q >= 0
           /\ 12 * v <= 100 * 1000 => q = 12 * v
           /\ 12 * v > 100 * 1000 => q = 100 * 1000

\* enrich capped the score of 83.34 (83.34 * 1.2 = 100.008) at 100.
C12_Witness ==
    /\ probe.step = "enrich"
    /\ probe.before.value = 8334
    /\ records[1].metadata["quality_score"] = 100 * 1000

====
